---------------------------- MODULE Spec2Model ----------------------------
(***************************************************************************)
(* Model of the video analysis pipeline of the livestock intelligence      *)
(* backend: the statistical count verifier (core/count_verifier.py), the   *)
(* IoU tracker (core/detection_engine.py), the re-identification engine    *)
(* (core/reid_engine.py), the detector's cluster-aware NMS                 *)
(* (core/herd_scale_detector.py) and the herd-scale orchestrator           *)
(* (core/master_engine.py, core/herd_scale_processor.py, routes/videos.py) *)
(* with its evidence buffer and the MasterEngine singleton.                *)
(*                                                                         *)
(* Numbers.  The code computes in IEEE doubles; the model computes in      *)
(* fixed point.  Scores (0..100 points) are carried in hundredths of a     *)
(* point, the confidence in 1/10000 of a point, a coefficient of variation *)
(* in thousandths, relative changes in 1/10000.  Comparisons of a          *)
(* statistic with a threshold are done exactly on the integer sums.        *)
(***************************************************************************)
EXTENDS Integers, Sequences, FiniteSets, TLC

VARIABLES
    vin,        \* verifier input: the frame -> (count, uncertainty) maps, in insertion order
    vres,       \* the CountVerificationResult of the last verify_counts call, or NoResult
    vpc,        \* "input" while the maps are being built, "verified" after the call
    vmeta,      \* the video_metadata of the last verify_counts call
    trk,        \* a SimpleTracker: tracks, next_track_id, frame_count
    tret,       \* the track ids returned by the last SimpleTracker.update, in list order
    tcaller,    \* the tracker's caller: its frame_number and frame_skip
    tcall,      \* the last SimpleTracker.update call: the tracker before it and its detections
    reid,       \* a ReIDEngine: identity_cache and pending_identities
    rcall,      \* the last identify call: the engine before it, track_id, embedding
    rret,       \* what that call returned: identity_id, similarity, decision
    db,         \* the store: videos, goats and biometric_registry tables
    now,        \* the wall clock, in seconds
    job,        \* per video id: the state of the job's worker thread
    ndets,      \* the detector's all_detections of one frame, in the order they were appended
    nkeep,      \* what _apply_cluster_nms returned for them
    npc,        \* "slicing" while the slices add detections, "done" after the NMS
    evid,       \* the frame loop's frame_number, peak_count, peak_frame_num, frames_for_evidence
    singleton,  \* MasterEngine._instance, _master_engine_instance and the audit log
    thr         \* per worker thread: its position in get_master_engine and what it holds

vvars == <<vin, vres, vpc, vmeta>>
tvars == <<trk, tret, tcaller, tcall>>
rvars == <<reid, rcall, rret>>
jvars == <<db, now, job>>
nvars == <<ndets, nkeep, npc>>
evars == <<evid>>
mvars == <<singleton, thr>>

vars == <<vin, vres, vpc, vmeta, trk, tret, tcaller, tcall, reid, rcall, rret, db, now, job,
          ndets, nkeep, npc, evid, singleton, thr>>

(***************************************************************************)
(* Bounds of the model and input alphabets.                                *)
(***************************************************************************)
MaxSamples == 4             \* most frames in a verifier input
CountValues == {0, 10, 11, 15}      \* per-frame detection counts offered to the verifier
UncValues == {0, 4016, 10000}       \* per-frame uncertainties, in hundredths (0.00, 40.16, 100.00)

NoResult == [kind |-> "none"]
NoMeta == <<>>
Metas == {NoMeta, <<640, 480>>, <<1920, 1080>>}     \* video_metadata['resolution'], or no metadata

(***************************************************************************)
(* Arithmetic helpers.                                                     *)
(***************************************************************************)
Abs(x) == IF x < 0 THEN -x ELSE x
Min2(a, b) == IF a < b THEN a ELSE b
Max2(a, b) == IF a > b THEN a ELSE b

\* s[lo] + ... + s[hi], by halving the range (a long series is summed in
\* logarithmic depth)
RECURSIVE SumRange(_, _, _)
SumRange(s, lo, hi) ==
    IF lo > hi THEN 0
    ELSE IF lo = hi THEN s[lo]
    ELSE LET m == (lo + hi) \div 2 IN SumRange(s, lo, m) + SumRange(s, m + 1, hi)

RECURSIVE SumTail(_)
SumTail(s) == IF s = <<>> THEN 0 ELSE Head(s) + SumTail(Tail(s))

SumSeq(s) == IF Len(s) <= 8 THEN SumTail(s) ELSE SumRange(s, 1, Len(s))

RECURSIVE MaxRange(_, _, _)
MaxRange(s, lo, hi) ==
    IF lo = hi THEN s[lo]
    ELSE LET m == (lo + hi) \div 2 IN Max2(MaxRange(s, lo, m), MaxRange(s, m + 1, hi))

RECURSIVE MaxTail(_)
MaxTail(s) == IF Len(s) = 1 THEN s[1] ELSE Max2(Head(s), MaxTail(Tail(s)))

MaxSeq(s) == IF Len(s) <= 8 THEN MaxTail(s) ELSE MaxRange(s, 1, Len(s))

\* floor of the square root
RECURSIVE SqrtBisect(_, _, _)
SqrtBisect(x, lo, hi) ==
    IF lo = hi THEN lo
    ELSE LET mid == (lo + hi + 1) \div 2
         IN  IF mid * mid <= x THEN SqrtBisect(x, mid, hi) ELSE SqrtBisect(x, lo, mid - 1)

ISqrt(x) == SqrtBisect(x, 0, 46340)

Sorted(s) == SortSeq(s, LAMBDA a, b : a < b)

\* np.percentile(s, q) (linear interpolation) times 100, exactly:
\* position q*(n-1)/100 between the order statistics lo and lo+1.
Percentile100(s, q) ==
    LET a == Sorted(s)
        n == Len(a)
        pos == q * (n - 1)
        lo == (pos \div 100) + 1
        rem == pos % 100
    IN  IF rem = 0 THEN 100 * a[lo]
        ELSE 100 * a[lo] + rem * (a[lo + 1] - a[lo])

\* int(np.percentile(s, q)): truncation of a non-negative value
IntPercentile(s, q) == Percentile100(s, q) \div 100

(***************************************************************************)
(* CountVerifier (core/count_verifier.py).                                 *)
(***************************************************************************)
min_confidence_threshold == 60      \* CountVerifier.__init__ default

\* list(counts_by_frame.values()) / list(uncertainty_by_frame.values())
CountsOf(in) == [i \in 1..Len(in) |-> in[i].count]
UncsOf(in) == [i \in 1..Len(in) |-> in[i].unc]

\* n^2 * variance = n * sum(x^2) - sum(x)^2
VarNum(counts) ==
    LET S == SumSeq(counts)
    IN  Len(counts) * SumSeq([i \in 1..Len(counts) |-> counts[i] * counts[i]]) - S * S

RECURSIVE GCD(_, _)
GCD(a, b) == IF b = 0 THEN a ELSE GCD(b, a % b)

\* cv^2 = variance / mean^2 as the fraction n^2 var / sum^2 (mean > 0), reduced
\* to lowest terms where the products taken of it would leave 32 bits
CvSquared(counts) ==
    LET v == VarNum(counts)
        S == SumSeq(counts)
        q == S * S
        g == GCD(v, q)
    IN  IF q < 10000 THEN [num |-> v, den |-> q]
        ELSE [num |-> v \div g, den |-> q \div g]

\* cv < num/den for cv = std/mean if mean > 0 else 1.0, decided exactly
CvBelow(counts, num, den) ==
    LET r == CvSquared(counts) IN
    IF SumSeq(counts) > 0 THEN den * den * r.num < num * num * r.den
    ELSE den < num

CvAbove(counts, num, den) ==
    LET r == CvSquared(counts) IN
    IF SumSeq(counts) > 0 THEN den * den * r.num > num * num * r.den
    ELSE den > num

\* cv in thousandths, saturated at 0.5 (all the code needs of larger values)
CvE3(counts) ==
    LET r == CvSquared(counts) IN
    IF SumSeq(counts) = 0 \/ 4 * r.num >= r.den THEN 500
    ELSE ISqrt((r.num * 1000000) \div r.den)

\* _calculate_temporal_stability, in hundredths of a point
calculate_temporal_stability(counts) ==
    LET idx == {i \in 2..Len(counts) : counts[i - 1] > 0}
        chg(i) == (Abs(counts[i] - counts[i - 1]) * 10000) \div counts[i - 1]
        SumChg(I) == SumSeq([k \in 1..(Len(counts) - 1) |->
                                IF k + 1 \in I THEN chg(k + 1) ELSE 0])
    IN  IF Len(counts) < 2 THEN 0
        ELSE IF idx = {} THEN 0
        ELSE LET avg_change == SumChg(idx) \div Cardinality(idx)
             IN  Max2(0, 10000 - Min2(avg_change, 10000))

\* _detect_outliers: the number of counts outside the IQR fences
detect_outliers(counts) ==
    IF Len(counts) < 4 THEN 0
    ELSE LET q1 == Percentile100(counts, 25)
             q3 == Percentile100(counts, 75)
             iqr == q3 - q1
             lower2 == 2 * q1 - 3 * iqr        \* twice the lower fence, times 100
             upper2 == 2 * q3 + 3 * iqr
         IN  Cardinality({i \in 1..Len(counts) :
                 200 * counts[i] < lower2 \/ 200 * counts[i] > upper2})

\* the entries in ascending frame-number order
ByFrame(in) == SortSeq(in, LAMBDA a, b : a.frame < b.frame)

\* a variant that also counts a change of exactly 50%
detect_sudden_jumps_inclusive(in) ==
    LET s == ByFrame(in) IN
    Cardinality({i \in 2..Len(s) :
        s[i - 1].count > 0 /\ 2 * Abs(s[i].count - s[i - 1].count) >= s[i - 1].count})

\* _detect_sudden_jumps: change_pct > 0.5 between frames adjacent in frame order
detect_sudden_jumps(in) ==
    LET s == ByFrame(in) IN
    Cardinality({i \in 2..Len(s) :
        s[i - 1].count > 0 /\ 2 * Abs(s[i].count - s[i - 1].count) > s[i - 1].count})

\* _calculate_confidence, in 1/10000 of a point
calculate_confidence(cvE3, temporal_stability, avg_uncertainty, nOut, n) ==
    LET cv_score == Max2(0, 10000 - Min2(20 * cvE3, 10000))
        stability_score == temporal_stability
        uncertainty_score == 10000 - avg_uncertainty
        outlier_score == Max2(0, 10000 - Min2((nOut * 100000) \div (3 * n), 10000))
        confidence == cv_score * 30 + stability_score * 30
                        + uncertainty_score * 25 + outlier_score * 15
    IN  Min2(1000000, Max2(0, confidence))

\* round(x, 1) of a value carried in 1/10000: the result in tenths
Round1(x) == (x + 500) \div 1000

\* _generate_recommendation: the set of recommendation topics joined by " | "
generate_recommendation(sumU, n, counts, temporal_stability, meta) ==
    LET r1 == IF sumU > 5000 * n THEN {"occlusion"} ELSE {}
        r2 == IF CvAbove(counts, 3, 10) THEN {"variance"} ELSE {}
        r3 == IF temporal_stability < 4000 THEN {"tracking"} ELSE {}
        r4 == IF meta # NoMeta /\ (meta[1] < 1280 \/ meta[2] < 720)
              THEN {"resolution"} ELSE {}
        all == r1 \cup r2 \cup r3 \cup r4
    IN  IF all = {} THEN {"general"} ELSE all

\* a failure result that drops its reason
create_failure_result_silent(reason) ==
    [kind |-> "result", min_count |-> 0, max_count |-> 0, likely_count |-> 0,
     confidence_score |-> 0, uncertainty_level |-> "EXTREME", is_reliable |-> FALSE,
     warnings |-> {}, failure_reasons |-> <<>>, temporal_stability |-> 0,
     recommendation |-> {"unable"}, branch |-> "empty"]

\* _create_failure_result
create_failure_result(reason) ==
    [kind |-> "result", min_count |-> 0, max_count |-> 0, likely_count |-> 0,
     confidence_score |-> 0, uncertainty_level |-> "EXTREME", is_reliable |-> FALSE,
     warnings |-> {}, failure_reasons |-> <<reason>>, temporal_stability |-> 0,
     recommendation |-> {"unable"}, branch |-> "empty"]

\* step 8 of verify_counts: the count range of each cv branch
likely_count_of(branch, counts) ==
    CASE branch = "stable" -> IntPercentile(counts, 95)
      [] branch = "moderate" -> IntPercentile(counts, 90)
      [] OTHER -> IntPercentile(counts, 50)

\* a slip in the wide range: the upper quartile taken for the lower one
min_count_upper_quartile(branch, likely_count, counts) ==
    CASE branch = "stable" -> (likely_count * 95) \div 100
      [] branch = "moderate" -> (likely_count * 90) \div 100
      [] OTHER -> IntPercentile(counts, 75)

min_count_of(branch, likely_count, counts) ==
    CASE branch = "stable" -> (likely_count * 95) \div 100
      [] branch = "moderate" -> (likely_count * 90) \div 100
      [] OTHER -> IntPercentile(counts, 25)

max_count_of(branch, likely_count, peak_count) ==
    CASE branch = "stable" -> (likely_count * 105) \div 100
      [] branch = "moderate" -> (peak_count * 105) \div 100
      [] OTHER -> peak_count

\* verify_counts(counts_by_frame, uncertainty_by_frame, video_metadata)
verify_counts(in, meta) ==
    IF in = <<>> THEN create_failure_result("No detections found")
    ELSE
    LET counts == CountsOf(in)
        n == Len(counts)
        sumC == SumSeq(counts)
        sumU == SumSeq(UncsOf(in))
        peak_count == MaxSeq(counts)
        temporal_stability == calculate_temporal_stability(counts)
        nOut == detect_outliers(counts)
        avg_uncertainty == sumU \div n
        sudden_jumps == detect_sudden_jumps(in)
        confidence == calculate_confidence(CvE3(counts), temporal_stability,
                                           avg_uncertainty, nOut, n)
        branch == IF CvBelow(counts, 5, 100) THEN "stable"
                  ELSE IF CvBelow(counts, 15, 100) THEN "moderate"
                  ELSE "variance"
        likely_count == likely_count_of(branch, counts)
        min_count == min_count_of(branch, likely_count, counts)
        max_count == max_count_of(branch, likely_count, peak_count)
        level == IF sumU > 6000 * n \/ confidence < 400000 THEN "EXTREME"
                 ELSE IF sumU > 4000 * n \/ confidence < 600000 THEN "HIGH"
                 ELSE IF sumU > 2000 * n \/ confidence < 750000 THEN "MEDIUM"
                 ELSE "LOW"
        is_reliable == confidence >= min_confidence_threshold * 10000
        warnings ==
            (IF temporal_stability < 5000 THEN {"instability"} ELSE {})
            \cup (IF 5 * nOut > n THEN {"outliers"} ELSE {})
            \cup (IF peak_count > 500 THEN {"extreme_count"} ELSE {})
            \cup (IF peak_count < 5 /\ sumC > 0 THEN {"low_count"} ELSE {})
            \cup (IF 10 * sudden_jumps > n THEN {"sudden_changes"} ELSE {})
            \cup (IF branch = "variance" THEN {"high_variance"} ELSE {})
        failure_reasons ==
            (CASE level = "EXTREME" -> <<"Extreme occlusion or poor video quality">>
               [] level = "HIGH" -> <<"High occlusion detected">>
               [] OTHER -> <<>>)
            \o (IF ~is_reliable THEN <<"Confidence score below threshold">> ELSE <<>>)
    IN  [kind |-> "result", min_count |-> min_count, max_count |-> max_count,
         likely_count |-> likely_count,
         confidence_score |-> Round1(confidence),
         uncertainty_level |-> level, is_reliable |-> is_reliable,
         warnings |-> warnings, failure_reasons |-> failure_reasons,
         temporal_stability |-> Round1(temporal_stability * 100),
         recommendation |-> IF ~is_reliable
                            THEN generate_recommendation(sumU, n, counts,
                                                         temporal_stability, meta)
                            ELSE {},
         branch |-> branch]

(***************************************************************************)
(* SimpleTracker (core/detection_engine.py).  A box is <<x1, y1, x2, y2>>; *)
(* a detection is a box with the frame number its caller gave it.  A track *)
(* keeps len(detections) as hits and bbox_history[-1] as bbox.             *)
(***************************************************************************)
min_hits == 3               \* SimpleTracker.__init__ default, and the orchestrator's value
TrackerMaxAge == 1          \* max_age of the tracker under test (the code uses 30 and 60)
MaxUpdates == 5             \* most update calls on one tracker
FrameSkips == {1, 5}        \* frame_skip of the two orchestrators

BoxA == <<0, 0, 10, 10>>
BoxA2 == <<2, 0, 12, 10>>   \* IoU 2/3 with BoxA
BoxB == <<20, 0, 30, 10>>   \* disjoint from both
BoxA3 == <<0, 0, 3, 10>>    \* inside BoxA, IoU 30/100 = iou_threshold with it
DetLists == {<<>>, <<BoxA>>, <<BoxA2>>, <<BoxB>>, <<BoxA, BoxB>>, <<BoxB, BoxA>>,
             <<BoxA, BoxA2>>, <<BoxA3>>}

NewTracker(max_age) ==
    [tracks |-> <<>>, next_track_id |-> 1, frame_count |-> 0, max_age |-> max_age]

\* SimpleTracker._compute_iou as the fraction n/d (0/1 where the code returns 0.0)
Iou(b1, b2) ==
    LET x1 == Max2(b1[1], b2[1])
        y1 == Max2(b1[2], b2[2])
        x2 == Min2(b1[3], b2[3])
        y2 == Min2(b1[4], b2[4])
        inter == (x2 - x1) * (y2 - y1)
        union == (b1[3] - b1[1]) * (b1[4] - b1[2]) + (b2[3] - b2[1]) * (b2[4] - b2[2]) - inter
    IN  IF x2 < x1 \/ y2 < y1 THEN [n |-> 0, d |-> 1]
        ELSE IF union = 0 THEN [n |-> 0, d |-> 1]
        ELSE [n |-> inter, d |-> union]

FracLess(a, b) == a.n * b.d < b.n * a.d
Removed == [n |-> -1, d |-> 1]

\* iou < iou_threshold (0.3)
BelowIouThreshold(f) == 10 * f.n < 3 * f.d

\* np.argmax over the matrix in row-major order: the first largest entry
ArgMax(M, rows, cols) ==
    CHOOSE p \in (1..rows) \X (1..cols) :
        \A q \in (1..rows) \X (1..cols) :
            /\ ~FracLess(M[p], M[q])
            /\ (q[1] < p[1] \/ (q[1] = p[1] /\ q[2] < p[2])) => FracLess(M[q], M[p])

\* the greedy loop of _associate_detections: k rounds left
RECURSIVE Greedy(_, _, _, _, _, _)
Greedy(M, rows, cols, k, matched, unmatched) ==
    IF k = 0 THEN [matched |-> matched, unmatched |-> unmatched]
    ELSE LET p == ArgMax(M, rows, cols) IN
         IF BelowIouThreshold(M[p]) THEN [matched |-> matched, unmatched |-> unmatched]
         ELSE Greedy([q \in DOMAIN M |-> IF q[1] = p[1] \/ q[2] = p[2] THEN Removed ELSE M[q]],
                     rows, cols, k - 1,
                     Append(matched, p),
                     SelectSeq(unmatched, LAMBDA j : j # p[2]))

\* the ids of a tracker's tracks in dict order (ids are inserted ascending)
TrackIds(t) == 1..Len(t.tracks)
ActiveIds(t) == SelectSeq([i \in TrackIds(t) |-> i], LAMBDA i : t.tracks[i].is_active)

\* _associate_detections: <<track id, detection index>> pairs and the unmatched indices
associate_detections(t, dets) ==
    LET act == ActiveIds(t)
        all == [j \in 1..Len(dets) |-> j]
    IN  IF Len(t.tracks) = 0 \/ Len(act) = 0 THEN [matched |-> <<>>, unmatched |-> all]
        ELSE LET M == [p \in (1..Len(act)) \X (1..Len(dets)) |->
                          Iou(t.tracks[act[p[1]]].bbox, dets[p[2]])]
                 g == Greedy(M, Len(act), Len(dets), Min2(Len(act), Len(dets)), <<>>, all)
             IN  [matched |-> [i \in 1..Len(g.matched) |->
                                  <<act[g.matched[i][1]], g.matched[i][2]>>],
                  unmatched |-> g.unmatched]

\* _age_tracks
age_tracks(t) ==
    [t EXCEPT !.tracks = [i \in TrackIds(t) |->
        IF t.frame_count - t.tracks[i].last_seen_frame > t.max_age
        THEN [t.tracks[i] EXCEPT !.is_active = FALSE]
        ELSE t.tracks[i]]]

\* a variant that also returns tracks not yet confirmed
get_active_tracks_unconfirmed(t) ==
    SelectSeq([i \in TrackIds(t) |-> i], LAMBDA i : t.tracks[i].is_active)

\* _get_active_tracks
get_active_tracks(t) ==
    SelectSeq([i \in TrackIds(t) |-> i],
              LAMBDA i : t.tracks[i].is_active /\ t.tracks[i].hits >= min_hits)

\* Track.update on the matched tracks
RECURSIVE ApplyMatches(_, _, _, _)
ApplyMatches(tracks, matched, dets, frame_number) ==
    IF matched = <<>> THEN tracks
    ELSE LET m == Head(matched) IN
         ApplyMatches([tracks EXCEPT ![m[1]] =
                          [@ EXCEPT !.hits = @ + 1, !.last_seen_frame = frame_number,
                                    !.bbox = dets[m[2]]]],
                      Tail(matched), dets, frame_number)

\* self.tracks[key] = track: a key already present keeps its place
PutTrack(tracks, key, track) ==
    IF key \in 1..Len(tracks) THEN [tracks EXCEPT ![key] = track] ELSE Append(tracks, track)

\* Track(track_id, initial_detection)
NewTrack(track_id, bbox, frame_number) ==
    [track_id |-> track_id, hits |-> 1, last_seen_frame |-> frame_number,
     bbox |-> bbox, is_active |-> TRUE]

\* a variant that does not advance next_track_id
RECURSIVE CreateTracksSameId(_, _, _, _)
CreateTracksSameId(t, unmatched, dets, frame_number) ==
    IF unmatched = <<>> THEN t
    ELSE CreateTracksSameId(
             [t EXCEPT !.tracks = PutTrack(@, t.next_track_id,
                                    NewTrack(t.next_track_id, dets[Head(unmatched)],
                                             frame_number))],
             Tail(unmatched), dets, frame_number)

\* the loop over unmatched_detections: a new Track under next_track_id,
\* then next_track_id += 1
RECURSIVE CreateTracks(_, _, _, _)
CreateTracks(t, unmatched, dets, frame_number) ==
    IF unmatched = <<>> THEN t
    ELSE CreateTracks(
             [t EXCEPT !.tracks = PutTrack(@, t.next_track_id,
                                    NewTrack(t.next_track_id, dets[Head(unmatched)],
                                             frame_number)),
                       !.next_track_id = @ + 1],
             Tail(unmatched), dets, frame_number)

\* SimpleTracker.update: the tracker after the call
tracker_update(t, dets, frame_number) ==
    LET t1 == [t EXCEPT !.frame_count = @ + 1] IN
    IF dets = <<>> THEN age_tracks(t1)
    ELSE LET a == associate_detections(t1, dets)
             upd == ApplyMatches(t1.tracks, a.matched, dets, frame_number)
         IN  age_tracks(CreateTracks([t1 EXCEPT !.tracks = upd], a.unmatched, dets,
                                     frame_number))

(***************************************************************************)
(* ReIDEngine (core/reid_engine.py).  A feature vector is                   *)
(* <<v1, v2, v3, dx, dy, scale_change>> in thousandths: three appearance    *)
(* components stand for the 210 colour, shape and texture components, and   *)
(* the last three are the gait signature, which is zero padding when the    *)
(* caller passes no previous box.  An embedding is such a vector after L2   *)
(* normalisation (length 1000); a similarity is in thousandths.             *)
(***************************************************************************)
NEW_IDENTITY_THRESHOLD == 600   \* declared by the engine, read by no decision
STRONG_MATCH_THRESHOLD == 850
WEAK_MATCH_THRESHOLD == 700
HistoryLen == 50                \* deque(maxlen=50) of GoatIdentity.embedding_history
StableWindow == 10              \* get_stable_embedding averages the last 10
None == 0                       \* Python's None as an identity id; row ids start at 1

Dim == 6
NoGait == <<0, 0, 0>>
StillGait == <<0, 0, 1000>>     \* _extract_gait_features of two equal boxes

Dot(a, b) == SumSeq([i \in 1..Dim |-> a[i] * b[i]])
Norm(a) == ISqrt(Dot(a, a))

\* v / np.linalg.norm(v), left alone when the norm is 0
Normalize(a) ==
    LET norm == Norm(a)
    IN  IF norm > 0 THEN [i \in 1..Dim |-> (a[i] * 1000) \div norm] ELSE a

\* the concatenated and padded features without the L2 normalisation
to_embedding_raw(visual, gait) == visual \o gait

\* BiometricFeatures.to_embedding: concatenate, pad, L2 normalise
to_embedding(visual, gait) == Normalize(visual \o gait)

\* _extract_gait_features(bbox, prev_bbox), in thousandths
extract_gait_features(bbox, prev_bbox) ==
    LET cx2 == bbox[1] + bbox[3]
        cy2 == bbox[2] + bbox[4]
        pcx2 == prev_bbox[1] + prev_bbox[3]
        pcy2 == prev_bbox[2] + prev_bbox[4]
        area == (bbox[3] - bbox[1]) * (bbox[4] - bbox[2])
        prev_area == (prev_bbox[3] - prev_bbox[1]) * (prev_bbox[4] - prev_bbox[2])
    IN  <<(cx2 - pcx2) * 500, (cy2 - pcy2) * 500,
          IF prev_area > 0 THEN (area * 1000) \div prev_area ELSE 1000>>

\* np.mean(list, axis=0) followed by the normalisation
MeanNormalized(embs) ==
    Normalize([i \in 1..Dim |-> SumSeq([k \in 1..Len(embs) |-> embs[k][i]]) \div Len(embs)])

LastN(s, n) == IF Len(s) <= n THEN s ELSE SubSeq(s, Len(s) - n + 1, Len(s))

\* GoatIdentity(...) as register_new_identity and load_identities build it;
\* time is datetime.now() or the row's last_seen
NewIdentity(goat_id, embedding, time) ==
    [identity_id |-> goat_id, embedding |-> embedding, embedding_history |-> <<>>,
     appearance_count |-> 0, last_seen |-> time]

\* GoatIdentity.update_embedding with learning_rate = num/den
update_embedding(identity, new_embedding, num, den, time) ==
    [identity EXCEPT
        !.last_seen = time,
        !.embedding_history = LastN(Append(@, new_embedding), HistoryLen),
        !.embedding = Normalize([i \in 1..Dim |->
                          ((den - num) * @[i] + num * new_embedding[i]) \div den]),
        !.appearance_count = @ + 1]

\* GoatIdentity.get_stable_embedding
get_stable_embedding(identity) ==
    IF identity.embedding_history = <<>> THEN identity.embedding
    ELSE MeanNormalized(LastN(identity.embedding_history, StableWindow))

\* _cosine_similarity
cosine_similarity(a, b) ==
    LET norm_a == Norm(a)
        norm_b == Norm(b)
    IN  IF norm_a = 0 \/ norm_b = 0 THEN 0
        ELSE (Dot(a, b) * 1000) \div (norm_a * norm_b)

\* the loop of _find_best_match over identity_cache.items(), from position k
RECURSIVE BestFrom(_, _, _, _, _)
BestFrom(cache, embedding, k, best_id, best_similarity) ==
    IF k > Len(cache) THEN [id |-> best_id, similarity |-> best_similarity]
    ELSE LET similarity == cosine_similarity(embedding, get_stable_embedding(cache[k]))
         IN  IF similarity > best_similarity
             THEN BestFrom(cache, embedding, k + 1, cache[k].identity_id, similarity)
             ELSE BestFrom(cache, embedding, k + 1, best_id, best_similarity)

\* _find_best_match
find_best_match(cache, embedding) ==
    IF cache = <<>> THEN [id |-> None, similarity |-> 0]
    ELSE BestFrom(cache, embedding, 1, None, -1000)

CacheKeys(cache) == {cache[k].identity_id : k \in 1..Len(cache)}
CachePos(cache, id) == CHOOSE k \in 1..Len(cache) : cache[k].identity_id = id

NewEngine == [identity_cache |-> <<>>, pending_identities |-> <<>>]

\* pending_identities[track_id], the empty list for a track not yet seen
PendingOf(engine, track_id) ==
    IF track_id \in DOMAIN engine.pending_identities
    THEN engine.pending_identities[track_id] ELSE <<>>

\* pending_identities[track_id].append(embedding); tracks without an entry
\* keep the empty list
AddPending(engine, track_id, embedding) ==
    [engine EXCEPT !.pending_identities =
        [t \in 1..Max2(Len(@), track_id) |->
            IF t = track_id THEN Append(PendingOf(engine, t), embedding)
            ELSE PendingOf(engine, t)]]

\* ReIDEngine.identify, given the embedding the feature extractor produced:
\* the engine after the call and the returned triple
identify(engine, embedding, track_id, time) ==
    LET e1 == AddPending(engine, track_id, embedding)
        aggregated_embedding == MeanNormalized(e1.pending_identities[track_id])
        best == find_best_match(e1.identity_cache, aggregated_embedding)
        pos == CachePos(e1.identity_cache, best.id)
    IN  IF best.similarity >= STRONG_MATCH_THRESHOLD
        THEN [engine |-> [e1 EXCEPT !.identity_cache[pos] =
                             update_embedding(@, aggregated_embedding, 1, 10, time)],
              identity_id |-> best.id, similarity |-> best.similarity,
              decision |-> "STRONG_MATCH"]
        ELSE IF best.similarity >= WEAK_MATCH_THRESHOLD
        THEN [engine |-> [e1 EXCEPT !.identity_cache[pos] =
                             update_embedding(@, aggregated_embedding, 5, 100, time)],
              identity_id |-> best.id, similarity |-> best.similarity,
              decision |-> "WEAK_MATCH"]
        ELSE [engine |-> e1, identity_id |-> None, similarity |-> best.similarity,
              decision |-> "NEW"]

\* register_new_identity: identity_cache[goat_id] = identity (a key already
\* present keeps its place in the dictionary's order)
register_new_identity(engine, embedding, goat_id, time) ==
    IF goat_id \in CacheKeys(engine.identity_cache)
    THEN [engine EXCEPT !.identity_cache[CachePos(engine.identity_cache, goat_id)] =
                            NewIdentity(goat_id, embedding, time)]
    ELSE [engine EXCEPT !.identity_cache = Append(@, NewIdentity(goat_id, embedding, time))]

(***************************************************************************)
(* The herd-scale job (routes/videos.py, core/master_engine.py,            *)
(* core/herd_scale_processor.py).  The store holds the videos, goats and   *)
(* biometric_registry tables, the last_seen column of goats (<<>> for      *)
(* NULL, <<t>> for a time), and the events and audit_log tables.           *)
(* A video shows the animals "A" and "B", each                             *)
(* at its own fixed box with its own appearance; a frame is the set of     *)
(* animals visible in it.  error_message is [code, text]: the structured   *)
(* code the text starts with ("" when it starts with none) and what the    *)
(* text tells.                                                             *)
(***************************************************************************)
ProcessorMaxAge == 60       \* SimpleTracker(max_age=60, ...) of the processor
TagModulus == 10000         \* int(time.time() % 10000) of the ear tag

Animals == {"A", "B"}
BoxOf(a) == IF a = "A" THEN BoxA ELSE BoxB
VisualOf(a) == IF a = "A" THEN <<5000, 0, 0>> ELSE <<0, 5000, 0>>
BackgroundVisual == <<0, 0, 5000>>

NoMessage == [code |-> "", text |-> ""]
NewVideoRow == [processing_status |-> "Pending", progress |-> 0, error_message |-> NoMessage]
EmptyStore(jobs) == [videos |-> [j \in jobs |-> NewVideoRow], goats |-> <<>>,
                     biometric_registry |-> <<>>, last_seen |-> <<>>,
                     events |-> <<>>, audit_log |-> <<>>]

\* AuditLogger.log
audit_log(store, entity_type, entity_id, action) ==
    [store EXCEPT !.audit_log =
        Append(@, [entity_type |-> entity_type, entity_id |-> entity_id, action |-> action])]

\* the job before its worker thread has run
NewJob ==
    [pc |-> "queued", nframes |-> 0, total_frames |-> 0, neural_enabled |-> TRUE,
     low_quality |-> FALSE, frame_number |-> 0, frame |-> {},
     tracker |-> NewTracker(ProcessorMaxAge), reid_engine |-> NewEngine,
     track_to_goat |-> {}, unique_goats_seen |-> {}, detections |-> <<>>,
     todo |-> <<>>, verification |-> NoResult, herd_status |-> "none", ret |-> "none"]

\* ReIDEngine.load_identities: one identity per biometric_registry row
load_identities(store) ==
    [identity_cache |-> [k \in 1..Len(store.biometric_registry) |->
                            NewIdentity(store.biometric_registry[k].goat_id,
                                        store.biometric_registry[k].embedding_blob,
                                        store.biometric_registry[k].last_seen)],
     pending_identities |-> <<>>]

\* _update_video_status: the message is written only when it is not empty
update_video_status(store, video_id, status, progress, error_message) ==
    [store EXCEPT !.videos[video_id] =
        [processing_status |-> status, progress |-> progress,
         error_message |-> IF error_message.text # "" THEN error_message
                           ELSE @.error_message]]

\* _fail_video_job
fail_video_job(store, video_id, error_code, details) ==
    [store EXCEPT !.videos[video_id] =
        [processing_status |-> "Failed", progress |-> 0,
         error_message |-> [code |-> error_code, text |-> details]]]

\* _update_db_progress_detailed: progress and the step name, never the status
update_db_progress_detailed(store, video_id, progress, step_name) ==
    [store EXCEPT !.videos[video_id].progress = progress,
                  !.videos[video_id].error_message = [code |-> "", text |-> step_name]]

\* _save_video_final
save_video_final(store, video_id) ==
    [store EXCEPT !.videos[video_id].processing_status = "Completed",
                  !.videos[video_id].progress = 100]

\* _register_new_goat: the goats row (first_seen set, last_seen NULL) and its
\* biometric_registry row in one transaction; None and no row when the ear
\* tag is already taken
EarTag(time, video_id) == <<time % TagModulus, video_id>>

register_new_goat(store, embedding, video_id, time) ==
    IF \E g \in 1..Len(store.goats) : store.goats[g] = EarTag(time, video_id)
    THEN [store |-> store, goat_id |-> None]
    ELSE LET gid == Len(store.goats) + 1
         IN  [store |-> [store EXCEPT
                            !.goats = Append(@, EarTag(time, video_id)),
                            !.last_seen = Append(@, <<>>),
                            !.biometric_registry =
                                Append(@, [goat_id |-> gid, embedding_blob |-> embedding,
                                           last_seen |-> time])],
              goat_id |-> gid]

\* the appearance the feature extractor finds at a box of a frame
RoiVisual(frame, bbox) ==
    IF \E a \in frame : BoxOf(a) = bbox
    THEN VisualOf(CHOOSE a \in frame : BoxOf(a) = bbox)
    ELSE BackgroundVisual

\* detect_frame_adaptive: the boxes of the visible animals and the
\* uncertainty in hundredths (80.0 without the neural model, else 10.0 plus
\* 20.0 for a blurred frame)
DetectionsOf(frame) ==
    (IF "A" \in frame THEN <<BoxA>> ELSE <<>>) \o (IF "B" \in frame THEN <<BoxB>> ELSE <<>>)

UncertaintyOf(neural_enabled, low_quality) ==
    IF ~neural_enabled THEN 8000 ELSE IF low_quality THEN 3000 ELSE 1000

\* the except branch of MasterEngine.process_video_herd_scale
HandlerFailed(store, j, v, text) ==
    [store |-> audit_log(update_video_status(store, v, "Failed", 0,
                                             [code |-> "", text |-> text]),
                         "video", v, "FAILED_HERD_SCALE"),
     job |-> [j EXCEPT !.pc = "failed", !.ret = "failed"]]

(***************************************************************************)
(* HerdScaleDetector (core/herd_scale_detector.py): the detections of the  *)
(* slices of one frame and the cluster-aware NMS over them.  The network   *)
(* reports a box in fractions of a pixel (here tenths); a Detection holds  *)
(* the truncated global coordinates and the confidence in hundredths.      *)
(***************************************************************************)
MaxDets == 3                \* most detections the slices of a frame report

\* box.xyxy of the network, in tenths of a pixel
RawBoxes == {<<0, 0, 100, 100>>,
             <<10, 0, 100, 100>>,       \* IoU 0.9 with the first
             <<50, 0, 150, 100>>,       \* IoU 1/3 with the first
             <<32, 30, 38, 90>>,        \* 0.6 pixels wide
             <<0, 0, 120, 100>>}        \* IoU 90/120 = 0.75 with the second
SliceOrigins == {<<0, 0>>, <<4, 0>>}    \* (x1, y1) of a slice
ConfValues == {5, 12, 40}               \* box.conf

\* int(bx1 + x1), int(by1 + y1), int(bx2 + x1), int(by2 + y1)
ProjectBox(raw, origin) ==
    <<(raw[1] + 10 * origin[1]) \div 10, (raw[2] + 10 * origin[2]) \div 10,
      (raw[3] + 10 * origin[1]) \div 10, (raw[4] + 10 * origin[2]) \div 10>>

\* HerdScaleDetector._compute_iou as the fraction n/d (0/1 where the code returns 0)
compute_iou(box1, box2) ==
    LET xi1 == Max2(box1[1], box2[1])
        yi1 == Max2(box1[2], box2[2])
        xi2 == Min2(box1[3], box2[3])
        yi2 == Min2(box1[4], box2[4])
        inter == Max2(0, xi2 - xi1) * Max2(0, yi2 - yi1)
        b1_a == (box1[3] - box1[1]) * (box1[4] - box1[2])
        b2_a == (box2[3] - box2[1]) * (box2[4] - box2[2])
        union == b1_a + b2_a - inter
    IN  IF union > 0 THEN [n |-> inter, d |-> union] ELSE [n |-> 0, d |-> 1]

NmsBaseIou == [n |-> 3, d |-> 4]    \* base_iou=0.75 of detect_frame_adaptive

\* sorted(detections, key=confidence, reverse=True): a stable sort, so equal
\* confidences keep their order
ConfidenceRank(dets, i) ==
    1 + Cardinality({j \in 1..Len(dets) :
            \/ dets[j].confidence > dets[i].confidence
            \/ (dets[j].confidence = dets[i].confidence /\ j < i)})

SortedByConfidence(dets) ==
    [k \in 1..Len(dets) |-> dets[CHOOSE i \in 1..Len(dets) : ConfidenceRank(dets, i) = k]]

\* the while loop of _apply_cluster_nms
RECURSIVE NmsLoop(_, _, _)
NmsLoop(sorted_dets, keep, base_iou) ==
    IF sorted_dets = <<>> THEN keep
    ELSE LET current == Head(sorted_dets)
             filtered == SelectSeq(Tail(sorted_dets),
                             LAMBDA d : FracLess(compute_iou(current.bbox, d.bbox), base_iou))
         IN  NmsLoop(filtered, Append(keep, current), base_iou)

\* _apply_cluster_nms
apply_cluster_nms(detections, base_iou) ==
    IF detections = <<>> THEN <<>>
    ELSE NmsLoop(SortedByConfidence(detections), <<>>, base_iou)

(***************************************************************************)
(* The components a specification does not exercise stay idle.            *)
(***************************************************************************)
VIdle ==
    /\ vin = <<>>
    /\ vres = NoResult
    /\ vpc = "idle"
    /\ vmeta = NoMeta

TIdle ==
    /\ trk = NewTracker(TrackerMaxAge)
    /\ tret = <<>>
    /\ tcaller = [frame_number |-> 0, frame_skip |-> 0]
    /\ tcall = [called |-> FALSE]

RIdle ==
    /\ reid = NewEngine
    /\ rcall = [called |-> FALSE, ops |-> 0]
    /\ rret = [decision |-> "none"]

JIdle ==
    /\ db = EmptyStore({})
    /\ now = 0
    /\ job = <<>>

NIdle ==
    /\ ndets = <<>>
    /\ nkeep = <<>>
    /\ npc = "idle"

EIdle == evid = [frame_number |-> 0]

MIdle ==
    /\ singleton = [instance |-> "idle"]
    /\ thr = <<>>

(***************************************************************************)
(* Specification of the verifier: a caller builds the two maps entry by    *)
(* entry (in ascending or in descending key order, so that insertion       *)
(* order and frame order can differ) and then calls verify_counts.         *)
(***************************************************************************)
VInit ==
    /\ vin = <<>>
    /\ vres = NoResult
    /\ vpc = "input"
    /\ vmeta = NoMeta
    /\ TIdle
    /\ RIdle
    /\ JIdle
    /\ NIdle
    /\ EIdle
    /\ MIdle

FrameKeys(in) == {in[i].frame : i \in 1..Len(in)}

\* A new key continues the direction of the first two keys: ascending frame
\* numbers (the orchestrator's order) or descending ones.
NewKeys(in) ==
    IF in = <<>> THEN {MaxSamples}
    ELSE IF Len(in) = 1 THEN {in[1].frame + 1, in[1].frame - 1}
    ELSE IF in[2].frame > in[1].frame THEN {in[Len(in)].frame + 1}
    ELSE {in[Len(in)].frame - 1}

VAddFrame ==
    /\ vpc = "input"
    /\ Len(vin) < MaxSamples
    /\ \E f \in NewKeys(vin), c \in CountValues, u \in UncValues :
           vin' = Append(vin, [frame |-> f, count |-> c, unc |-> u])
    /\ UNCHANGED <<vres, vpc, vmeta>>
    /\ UNCHANGED <<tvars, rvars, jvars, nvars, evars, mvars>>

VVerify ==
    /\ vpc = "input"
    /\ \E meta \in Metas : vres' = verify_counts(vin, meta) /\ vmeta' = meta
    /\ vpc' = "verified"
    /\ UNCHANGED vin
    /\ UNCHANGED <<tvars, rvars, jvars, nvars, evars, mvars>>

VNext == VAddFrame \/ VVerify

SpecVerifier == VInit /\ [][VNext]_vars

(***************************************************************************)
(* Specification of the verifier on sampled series: the caller samples     *)
(* every FrameStep-th frame, as the test suite does, and passes a series   *)
(* of one of two shapes: a base count with a run of twice the base count   *)
(* in it, or the counts StableLow..StableHigh equally often; then it calls *)
(* verify_counts.                                                          *)
(***************************************************************************)
FrameStep == 5              \* range(0, 500, 5) of the tests
SampledFrames == 100        \* frames of a test series
StableLow == 48
StableHigh == 52
SeriesUncertainty == 1500   \* per-frame uncertainty 15, in hundredths

SeriesOf(counts) ==
    [i \in 1..Len(counts) |->
        [frame |-> FrameStep * (i - 1), count |-> counts[i], unc |-> SeriesUncertainty]]

\* base for a frames, twice base for b frames, base for a2 frames
JumpCounts(base, a, b, a2) ==
    [i \in 1..(a + b + a2) |-> IF i > a /\ i <= a + b THEN 2 * base ELSE base]

JumpBases == {1, 7, 50}
JumpRuns == {<<40, 20, 40>>, <<50, 10, 40>>, <<3, 2, 3>>, <<2, 1, 2>>, <<4, 3, 1>>}
JumpInputs == {SeriesOf(JumpCounts(c, r[1], r[2], r[3])) : c \in JumpBases, r \in JumpRuns}

StableValues == StableLow..StableHigh
StableOrders == {p \in [1..Cardinality(StableValues) -> StableValues] :
                    \A i, j \in DOMAIN p : p[i] = p[j] => i = j}

\* the values in rotation, or each value in one block
StableCycle(p) == [i \in 1..SampledFrames |-> p[((i - 1) % Len(p)) + 1]]
StableBlocks(p) ==
    [i \in 1..SampledFrames |-> p[((i - 1) \div (SampledFrames \div Len(p))) + 1]]
StableInputs == {SeriesOf(StableCycle(p)) : p \in StableOrders}
                    \cup {SeriesOf(StableBlocks(p)) : p \in StableOrders}

SInit ==
    /\ vin \in JumpInputs \cup StableInputs
    /\ vres = NoResult
    /\ vpc = "input"
    /\ vmeta = NoMeta
    /\ TIdle
    /\ RIdle
    /\ JIdle
    /\ NIdle
    /\ EIdle
    /\ MIdle

SNext == VVerify

SpecSeries == SInit /\ [][SNext]_vars

(***************************************************************************)
(* Specification of the detector's NMS: the slices of a frame append their *)
(* detections to all_detections, then _apply_cluster_nms runs over them.   *)
(***************************************************************************)
NInit ==
    /\ ndets = <<>>
    /\ nkeep = <<>>
    /\ npc = "slicing"
    /\ VIdle
    /\ TIdle
    /\ RIdle
    /\ JIdle
    /\ EIdle
    /\ MIdle

\* all_detections.append(Detection(...)) for one box of one slice
NAppend ==
    /\ npc = "slicing"
    /\ Len(ndets) < MaxDets
    /\ \E raw \in RawBoxes, origin \in SliceOrigins, conf \in ConfValues :
           ndets' = Append(ndets, [bbox |-> ProjectBox(raw, origin), confidence |-> conf])
    /\ UNCHANGED <<nkeep, npc>>
    /\ UNCHANGED <<vvars, tvars, rvars, jvars, evars, mvars>>

\* detections = self._apply_cluster_nms(all_detections, base_iou=0.75)
NApplyNms ==
    /\ npc = "slicing"
    /\ nkeep' = apply_cluster_nms(ndets, NmsBaseIou)
    /\ npc' = "done"
    /\ UNCHANGED ndets
    /\ UNCHANGED <<vvars, tvars, rvars, jvars, evars, mvars>>

NNext == NAppend \/ NApplyNms

SpecNms == NInit /\ [][NNext]_vars

(***************************************************************************)
(* Specification of the tracker: a caller feeds it the detections of one   *)
(* processed frame after the other.                                        *)
(***************************************************************************)
TInit ==
    /\ trk = NewTracker(TrackerMaxAge)
    /\ tret = <<>>
    /\ \E k \in FrameSkips : tcaller = [frame_number |-> 0, frame_skip |-> k]
    /\ tcall = [called |-> FALSE]
    /\ VIdle
    /\ RIdle
    /\ JIdle
    /\ NIdle
    /\ EIdle
    /\ MIdle

\* one processed frame: the caller advances to the next frame it does not
\* skip and calls update with that frame's detections
TUpdate ==
    /\ tcaller.frame_skip > 0
    /\ trk.frame_count < MaxUpdates
    /\ \E dets \in DetLists :
        LET fn == tcaller.frame_number + tcaller.frame_skip
            t2 == tracker_update(trk, dets, fn)
        IN  /\ trk' = t2
            /\ tret' = get_active_tracks(t2)
            /\ tcaller' = [tcaller EXCEPT !.frame_number = fn]
            /\ tcall' = [called |-> TRUE, before |-> trk, detections |-> dets]
    /\ UNCHANGED <<vvars, rvars, jvars, nvars, evars, mvars>>

TNext == TUpdate

SpecTracker == TInit /\ [][TNext]_vars

(***************************************************************************)
(* Specification of the re-identification engine: a caller identifies      *)
(* tracks and registers identities in any order.                           *)
(***************************************************************************)
MaxReidOps == 3             \* most identify and register calls on one engine
ReidTracks == {1, 2}
ReidIds == {None, 1, 2}
Visuals == {<<5000, 0, 0>>, <<4000, 3000, 0>>, <<3000, 4000, 0>>}   \* cosines 0.8, 0.6, 0.96

ReidOps == rcall.ops

RInit ==
    /\ reid = NewEngine
    /\ rcall = [called |-> FALSE, ops |-> 0]
    /\ rret = [decision |-> "none"]
    /\ VIdle
    /\ TIdle
    /\ JIdle
    /\ NIdle
    /\ EIdle
    /\ MIdle

RIdentify ==
    /\ ReidOps < MaxReidOps
    /\ \E track_id \in ReidTracks, visual \in Visuals, gait \in {NoGait, StillGait} :
        LET embedding == to_embedding(visual, gait)
            r == identify(reid, embedding, track_id, ReidOps + 1)
        IN  /\ reid' = r.engine
            /\ rcall' = [called |-> TRUE, ops |-> ReidOps + 1, engine |-> reid,
                         track_id |-> track_id, embedding |-> embedding]
            /\ rret' = [identity_id |-> r.identity_id, similarity |-> r.similarity,
                        decision |-> r.decision]
    /\ UNCHANGED <<vvars, tvars, jvars, nvars, evars, mvars>>

RRegister ==
    /\ ReidOps < MaxReidOps
    /\ \E goat_id \in ReidIds, visual \in Visuals :
           reid' = register_new_identity(reid, to_embedding(visual, NoGait), goat_id,
                                         ReidOps + 1)
    /\ rcall' = [rcall EXCEPT !.ops = @ + 1]
    /\ UNCHANGED rret
    /\ UNCHANGED <<vvars, tvars, jvars, nvars, evars, mvars>>

RNext == RIdentify \/ RRegister

SpecReID == RInit /\ [][RNext]_vars

(***************************************************************************)
(* The steps of a job.  create_video has inserted the Pending row and      *)
(* started the worker thread; the thread runs process_video_background.    *)
(***************************************************************************)
MaxFrames == 4              \* most frames of a video
MaxClock == 2               \* seconds the wall clock can advance

JInit(jobs) ==
    /\ db = EmptyStore(jobs)
    /\ now = 0
    /\ job = [j \in jobs |-> NewJob]
    /\ VIdle
    /\ TIdle
    /\ RIdle
    /\ NIdle
    /\ EIdle
    /\ MIdle

\* the wall clock advances by a second
Tick ==
    /\ now < MaxClock
    /\ now' = now + 1
    /\ UNCHANGED <<db, job>>
    /\ UNCHANGED <<vvars, tvars, rvars, nvars, evars, mvars>>

\* the worker reaches the frame loop: get_master_engine, the entry of
\* process_video_herd_scale with its audit entry, HerdScaleVideoProcessor(db_path)
\* with its own detector, tracker and ReIDEngine, and cv2.VideoCapture opened
JDispatch(v, nframes, total_frames, neural_enabled, low_quality) ==
    /\ job[v].pc = "queued"
    /\ job' = [job EXCEPT ![v] =
                 [@ EXCEPT !.pc = "loop", !.nframes = nframes,
                           !.total_frames = total_frames,
                           !.neural_enabled = neural_enabled,
                           !.low_quality = low_quality,
                           !.tracker = NewTracker(ProcessorMaxAge),
                           !.reid_engine = load_identities(db)]]
    /\ db' = audit_log(db, "video", v, "STARTED_HERD_SCALE")
    /\ UNCHANGED now
    /\ UNCHANGED <<vvars, tvars, rvars, nvars, evars, mvars>>

\* an exception before the orchestrator's try block (get_master_engine or
\* the audit log): process_video_background calls _fail_video_job
JDispatchFault(v) ==
    /\ job[v].pc = "queued"
    /\ db' = fail_video_job(db, v, "SYSTEM_FAULT", "str(e)")
    /\ job' = [job EXCEPT ![v].pc = "failed"]
    /\ UNCHANGED now
    /\ UNCHANGED <<vvars, tvars, rvars, nvars, evars, mvars>>

\* cap.isOpened() is false: ValueError("Cannot open video: ...")
JOpenFault(v) ==
    /\ job[v].pc = "queued"
    /\ LET h == HandlerFailed(audit_log(db, "video", v, "STARTED_HERD_SCALE"), job[v], v,
                              "Cannot open video")
       IN  db' = h.store /\ job' = [job EXCEPT ![v] = h.job]
    /\ UNCHANGED now
    /\ UNCHANGED <<vvars, tvars, rvars, nvars, evars, mvars>>

\* one iteration of the frame loop up to the tracker update: progress write,
\* detection, tracking; the active tracks without a goat are left to resolve
JFrame(v, frame) ==
    LET j == job[v]
        frame_number == j.frame_number + 1
    IN
    /\ j.pc = "loop"
    /\ j.todo = <<>>
    /\ j.frame_number < j.nframes
    /\ IF j.total_frames = 0
       THEN LET h == HandlerFailed(db, [j EXCEPT !.frame_number = frame_number], v,
                                   "division by zero")
            IN  db' = h.store /\ job' = [job EXCEPT ![v] = h.job]
       ELSE LET dets == DetectionsOf(frame)
                t2 == tracker_update(j.tracker, dets, frame_number)
                active_tracks == get_active_tracks(t2)
                mapped == {p[1] : p \in j.track_to_goat}
            IN  /\ db' = update_db_progress_detailed(db, v,
                            (frame_number * 100) \div j.total_frames, "Analyzing Frame")
                /\ job' = [job EXCEPT ![v] =
                     [j EXCEPT !.frame_number = frame_number, !.frame = frame,
                               !.tracker = t2,
                               !.detections = Append(@,
                                   [frame |-> frame_number, count |-> Len(dets),
                                    unc |-> UncertaintyOf(j.neural_enabled, j.low_quality)]),
                               !.todo = SelectSeq(active_tracks,
                                                  LAMBDA i : i \notin mapped)]]
    /\ UNCHANGED now
    /\ UNCHANGED <<vvars, tvars, rvars, nvars, evars, mvars>>

\* the identity of the next active track without a goat: identify, and for
\* NEW the registration in the store and in the engine's cache.  The box of
\* a track in these videos never moves, so its stable box and its previous
\* box are its box.
JResolve(v) ==
    LET j == job[v]
        track_id == Head(j.todo)
        bbox == j.tracker.tracks[track_id].bbox
        visual == RoiVisual(j.frame, bbox)
        r == identify(j.reid_engine,
                      to_embedding(visual, extract_gait_features(bbox, bbox)), track_id,
                      now)
        embedding == to_embedding(visual, NoGait)
        reg == register_new_goat(db, embedding, v, now)
        goat_id == IF r.decision = "NEW" THEN reg.goat_id ELSE r.identity_id
    IN
    /\ j.pc = "loop"
    /\ j.todo # <<>>
    /\ db' = IF r.decision = "NEW" THEN reg.store ELSE db
    /\ job' = [job EXCEPT ![v] =
         [j EXCEPT !.reid_engine = IF r.decision = "NEW"
                                   THEN register_new_identity(r.engine, embedding, reg.goat_id,
                                                              now)
                                   ELSE r.engine,
                   !.track_to_goat = IF goat_id # None
                                     THEN @ \cup {<<track_id, goat_id>>} ELSE @,
                   !.unique_goats_seen = IF goat_id # None THEN @ \cup {goat_id} ELSE @,
                   !.todo = Tail(@)]]
    /\ UNCHANGED now
    /\ UNCHANGED <<vvars, tvars, rvars, nvars, evars, mvars>>

\* an exception inside the frame loop (decoding, detection, feature
\* extraction, the identity engine)
JLoopFault(v) ==
    /\ job[v].pc = "loop"
    /\ job[v].frame_number > 0
    /\ LET h == HandlerFailed(db, job[v], v, "str(e)")
       IN  db' = h.store /\ job' = [job EXCEPT ![v] = h.job]
    /\ UNCHANGED now
    /\ UNCHANGED <<vvars, tvars, rvars, nvars, evars, mvars>>

\* the end of the stream: count verification, _save_video_final, the
\* processor's return, and MasterEngine's status update and result
JFinish(v) ==
    LET j == job[v]
        verification_result == verify_counts(j.detections, <<0, 0>>)
    IN
    /\ j.pc = "loop"
    /\ j.todo = <<>>
    /\ j.frame_number = j.nframes
    /\ db' = audit_log(update_video_status(save_video_final(db, v), v, "Completed", 100,
                                           NoMessage),
                       "video", v, "COMPLETED_HERD_SCALE")
    /\ job' = [job EXCEPT ![v] =
         [j EXCEPT !.pc = "done", !.verification = verification_result,
                   !.herd_status = IF verification_result.is_reliable THEN "success"
                                   ELSE "completed_with_warnings",
                   !.ret = "success"]]
    /\ UNCHANGED now
    /\ UNCHANGED <<vvars, tvars, rvars, nvars, evars, mvars>>

Frames == SUBSET Animals

AnyDispatch ==
    \E v \in DOMAIN job, n \in 1..MaxFrames, known \in BOOLEAN,
       neural_enabled \in BOOLEAN, low_quality \in BOOLEAN :
        JDispatch(v, n, IF known THEN n ELSE 0, neural_enabled, low_quality)

AnyDispatchFault == \E v \in DOMAIN job : JDispatchFault(v)
AnyOpenFault == \E v \in DOMAIN job : JOpenFault(v)
AnyFrame == \E v \in DOMAIN job, frame \in Frames : JFrame(v, frame)
AnyResolve == \E v \in DOMAIN job : JResolve(v)
AnyLoopFault == \E v \in DOMAIN job : JLoopFault(v)
AnyFinish == \E v \in DOMAIN job : JFinish(v)

JNext ==
    \/ Tick
    \/ AnyDispatch
    \/ AnyDispatchFault
    \/ AnyOpenFault
    \/ AnyFrame
    \/ AnyResolve
    \/ AnyLoopFault
    \/ AnyFinish

SpecJob == JInit({1}) /\ [][JNext]_vars

(***************************************************************************)
(* Two jobs submitted together on an empty store, each in its own worker   *)
(* thread of the same process.  Both videos show animal "A" in every       *)
(* frame and are decoded without a fault.                                  *)
(***************************************************************************)
ConcFrames == 3             \* frames of each of the two videos

ConcDispatch ==
    \E v \in DOMAIN job, low_quality \in BOOLEAN :
        JDispatch(v, ConcFrames, ConcFrames, TRUE, low_quality)

ConcFrame == \E v \in DOMAIN job : JFrame(v, {"A"})

CNext == Tick \/ ConcDispatch \/ ConcFrame \/ AnyResolve \/ AnyFinish

SpecConc == JInit({1, 2}) /\ [][CNext]_vars

(***************************************************************************)
(* Specification of the evidence buffer: the peak tracking of the frame    *)
(* loop of HerdScaleVideoProcessor.process_video_herd_scale, fed a count   *)
(* of detections per frame.  frames_for_evidence is the set of its keys.   *)
(***************************************************************************)
MaxLoopFrames == 7          \* most frames the decoder delivers
MaxCount == 2               \* most detections in one frame
frame_skip == 1             \* the processor analyses every frame

EInit ==
    /\ evid = [frame_number |-> 0, peak_count |-> 0, peak_frame_num |-> 0,
               frames_for_evidence |-> {}]
    /\ VIdle
    /\ TIdle
    /\ RIdle
    /\ JIdle
    /\ NIdle
    /\ MIdle

\* the peak tracking of one loop iteration: 10 * c > 9 * p stands for
\* current_count > peak_count * 0.9
peak_tracking(e, current_count) ==
    IF current_count >= e.peak_count
    THEN LET e1 == [e EXCEPT !.peak_count = current_count,
                             !.peak_frame_num = e.frame_number]
         IN  IF 10 * current_count > 9 * e1.peak_count
                \/ Cardinality(e1.frames_for_evidence) < 5
             THEN [e1 EXCEPT !.frames_for_evidence = @ \cup {e1.frame_number}]
             ELSE e1
    ELSE e

\* one iteration of the frame loop
EFrame ==
    /\ "peak_count" \in DOMAIN evid
    /\ evid.frame_number < MaxLoopFrames
    /\ \E current_count \in 0..MaxCount :
        LET e1 == [evid EXCEPT !.frame_number = @ + 1]
        IN  evid' = IF e1.frame_number % frame_skip # 0 THEN e1
                    ELSE peak_tracking(e1, current_count)
    /\ UNCHANGED <<vvars, tvars, rvars, jvars, nvars, mvars>>

ENext == EFrame

SpecEvidence == EInit /\ [][ENext]_vars

(***************************************************************************)
(* Specification of the engine singleton: the worker threads that          *)
(* create_video starts call get_master_engine(db_path) together.  A thread *)
(* may be preempted between any two statements.  MasterEngine._instance is *)
(* "none", "bare" (the object without its _initialized attribute) or       *)
(* "ready"; constructions counts the runs of the subsystem construction of *)
(* __init__ and audit the ENGINE_INITIALIZED entries.                      *)
(***************************************************************************)
NWorkers == 3               \* worker threads started together
Workers == 1..NWorkers
NoThread == 0

MInit ==
    /\ singleton = [instance |-> "none", initialized |-> FALSE, lock |-> NoThread,
                    master_engine_instance |-> FALSE, constructions |-> 0, audit |-> 0]
    /\ thr = [t \in Workers |-> [pc |-> "get", holds |-> "none"]]
    /\ VIdle
    /\ TIdle
    /\ RIdle
    /\ JIdle
    /\ NIdle
    /\ EIdle

Goto(t, pc) == thr' = [thr EXCEPT ![t].pc = pc]

\* get_master_engine: if _master_engine_instance is None
MGet(t) ==
    /\ thr[t].pc = "get"
    /\ IF singleton.master_engine_instance
       THEN thr' = [thr EXCEPT ![t] = [pc |-> "done", holds |-> "instance"]]
       ELSE Goto(t, "new")
    /\ UNCHANGED singleton
    /\ UNCHANGED <<vvars, tvars, rvars, jvars, nvars, evars>>

\* __new__: the first test of cls._instance, outside the lock
MNew(t) ==
    /\ thr[t].pc = "new"
    /\ IF singleton.instance = "none" THEN Goto(t, "lock") ELSE Goto(t, "init")
    /\ UNCHANGED singleton
    /\ UNCHANGED <<vvars, tvars, rvars, jvars, nvars, evars>>

\* __new__: with cls._lock
MLock(t) ==
    /\ thr[t].pc = "lock"
    /\ singleton.lock = NoThread
    /\ singleton' = [singleton EXCEPT !.lock = t]
    /\ Goto(t, "locked")
    /\ UNCHANGED <<vvars, tvars, rvars, jvars, nvars, evars>>

\* __new__: the second test, and cls._instance = super().__new__(cls)
MCreate(t) ==
    /\ thr[t].pc = "locked"
    /\ IF singleton.instance = "none"
       THEN singleton' = [singleton EXCEPT !.instance = "bare"] /\ Goto(t, "flag")
       ELSE singleton' = [singleton EXCEPT !.lock = NoThread] /\ Goto(t, "init")
    /\ UNCHANGED <<vvars, tvars, rvars, jvars, nvars, evars>>

\* __new__: cls._instance._initialized = False, and the lock released
MFlag(t) ==
    /\ thr[t].pc = "flag"
    /\ singleton' = [singleton EXCEPT !.instance = "ready", !.initialized = FALSE,
                                      !.lock = NoThread]
    /\ Goto(t, "init")
    /\ UNCHANGED <<vvars, tvars, rvars, jvars, nvars, evars>>

\* __init__: if self._initialized: return; an object without the attribute
\* raises AttributeError
MInitTest(t) ==
    /\ thr[t].pc = "init"
    /\ IF singleton.instance = "bare"
       THEN thr' = [thr EXCEPT ![t] = [pc |-> "done", holds |-> "error"]]
       ELSE IF singleton.initialized THEN Goto(t, "assign")
       ELSE Goto(t, "construct")
    /\ UNCHANGED singleton
    /\ UNCHANGED <<vvars, tvars, rvars, jvars, nvars, evars>>

\* __init__: the subsystems, load_identities and active_jobs
MConstruct(t) ==
    /\ thr[t].pc = "construct"
    /\ singleton' = [singleton EXCEPT !.constructions = @ + 1]
    /\ Goto(t, "initialized")
    /\ UNCHANGED <<vvars, tvars, rvars, jvars, nvars, evars>>

\* __init__: self._initialized = True
MInitialized(t) ==
    /\ thr[t].pc = "initialized"
    /\ singleton' = [singleton EXCEPT !.initialized = TRUE]
    /\ Goto(t, "audit")
    /\ UNCHANGED <<vvars, tvars, rvars, jvars, nvars, evars>>

\* __init__: the ENGINE_INITIALIZED audit entry
MAudit(t) ==
    /\ thr[t].pc = "audit"
    /\ singleton' = [singleton EXCEPT !.audit = @ + 1]
    /\ Goto(t, "assign")
    /\ UNCHANGED <<vvars, tvars, rvars, jvars, nvars, evars>>

\* get_master_engine: _master_engine_instance = MasterEngine(db_path); return
MAssign(t) ==
    /\ thr[t].pc = "assign"
    /\ singleton' = [singleton EXCEPT !.master_engine_instance = TRUE]
    /\ thr' = [thr EXCEPT ![t] = [pc |-> "done", holds |-> "instance"]]
    /\ UNCHANGED <<vvars, tvars, rvars, jvars, nvars, evars>>

SomeGet == \E t \in Workers : MGet(t)
SomeNew == \E t \in Workers : MNew(t)
SomeLock == \E t \in Workers : MLock(t)
SomeCreate == \E t \in Workers : MCreate(t)
SomeFlag == \E t \in Workers : MFlag(t)
SomeInitTest == \E t \in Workers : MInitTest(t)
SomeConstruct == \E t \in Workers : MConstruct(t)
SomeInitialized == \E t \in Workers : MInitialized(t)
SomeAudit == \E t \in Workers : MAudit(t)
SomeAssign == \E t \in Workers : MAssign(t)

MNext ==
    \/ SomeGet
    \/ SomeNew
    \/ SomeLock
    \/ SomeCreate
    \/ SomeFlag
    \/ SomeInitTest
    \/ SomeConstruct
    \/ SomeInitialized
    \/ SomeAudit
    \/ SomeAssign

SpecEngine == MInit /\ [][MNext]_vars

(***************************************************************************)
(* Claims about the verifier.                                              *)
(***************************************************************************)

\* C1: every result of verify_counts, the empty-input failure result
\* included, has min_count <= likely_count <= max_count and a confidence
\* score between 0 and 100 (carried in tenths), in each cv branch.
C1_RangeOrdered ==
    vpc = "verified" =>
        /\ vres.min_count <= vres.likely_count
        /\ vres.likely_count <= vres.max_count
        /\ 0 <= vres.confidence_score
        /\ vres.confidence_score <= 1000

\* a result of the wide-range branch whose three counts differ
C1_Witness ==
    /\ vpc = "verified"
    /\ vres.branch = "variance"
    /\ vres.min_count < vres.likely_count
    /\ vres.likely_count < vres.max_count

\* C10: is_reliable holds exactly when the reported confidence_score is at
\* least min_confidence_threshold, and an unreliable result lists at least
\* one failure reason.
C10_ReliableIffReported ==
    vpc = "verified" =>
        /\ vres.is_reliable <=> vres.confidence_score >= min_confidence_threshold * 10
        /\ ~vres.is_reliable => vres.failure_reasons # <<>>

\* C11: verify_counts of an empty counts map returns the failure result at
\* once, with no statistic computed: the three counts and the confidence
\* are 0, is_reliable is false and the only failure reason is
\* 'No detections found'.
C11_EmptyInputFails ==
    (vpc = "verified" /\ vin = <<>>) =>
        /\ vres.branch = "empty"
        /\ vres.likely_count = 0
        /\ vres.min_count = 0
        /\ vres.max_count = 0
        /\ vres.confidence_score = 0
        /\ ~vres.is_reliable
        /\ vres.failure_reasons = <<"No detections found">>
        /\ vres.warnings = {}

\* verify_counts was called with an empty map and low-resolution metadata
C11_Witness ==
    /\ vpc = "verified"
    /\ vin = <<>>
    /\ vmeta = <<640, 480>>

\* C12: whenever the metadata's resolution is below 1280x720 and the result
\* is unreliable, for an empty or non-empty counts map, the recommendation
\* is a string that mentions the resolution.
C12_LowResolutionRecommended ==
    (/\ vpc = "verified"
     /\ vmeta # NoMeta
     /\ ~vres.is_reliable) =>
        ((vmeta[1] < 1280 \/ vmeta[2] < 720) => "resolution" \in vres.recommendation)

\* the series is base, then twice base for a shorter run, then base again
IsJumpSeries(in, base) ==
    \E a, b, a2 \in 1..Len(in) :
        /\ b < a
        /\ base > 0
        /\ in = SeriesOf(JumpCounts(base, a, b, a2))

\* C13: for a series that is a constant c > 0, then 2c for a shorter run,
\* then c again, every uncertainty 15, the result warns about sudden count
\* changes, has max_count >= 2c and likely_count = c.
C13_JumpWarned ==
    \A c \in JumpBases :
        (vpc = "verified" /\ IsJumpSeries(vin, c)) =>
            /\ "sudden_changes" \in vres.warnings
            /\ vres.max_count >= 2 * c
            /\ vres.likely_count = c

\* the counts StableLow..StableHigh, each as often as the others
IsStableSeries(in) ==
    /\ Len(in) = SampledFrames
    /\ \A i \in 1..Len(in) : in[i].unc = SeriesUncertainty
    /\ \A x \in StableValues :
           Cardinality({i \in 1..Len(in) : in[i].count = x}) * Cardinality(StableValues)
               = SampledFrames

\* C14: for 100 sampled frames whose counts are 48..52 equally often, every
\* uncertainty 15, the result has likely_count in {49, 50, 51},
\* min_count >= 46, max_count <= 55, confidence_score >= 75, is reliable
\* and has uncertainty level LOW.
C14_StableSeries ==
    (vpc = "verified" /\ IsStableSeries(vin)) =>
        /\ vres.likely_count \in {49, 50, 51}
        /\ vres.min_count >= 46
        /\ vres.max_count <= 55
        /\ vres.confidence_score >= 750
        /\ vres.is_reliable
        /\ vres.uncertainty_level = "LOW"

(***************************************************************************)
(* Claims about the detector.                                              *)
(***************************************************************************)

\* the detections with, of each group of equal boxes, only the copy the
\* confidence order puts first
WithoutDuplicates(dets) ==
    LET first == {i \in 1..Len(dets) :
                     \A j \in 1..Len(dets) :
                         dets[j].bbox = dets[i].bbox =>
                             ConfidenceRank(dets, i) <= ConfidenceRank(dets, j)}
        tagged == [i \in 1..Len(dets) |-> [d |-> dets[i], i |-> i]]
        sel == SelectSeq(tagged, LAMBDA t : t.i \in first)
    IN  [k \in 1..Len(sel) |-> sel[k].d]

HasDuplicates(dets) ==
    \E i, j \in 1..Len(dets) : i # j /\ dets[i].bbox = dets[j].bbox

\* C15: when the detections passed to the NMS hold several detections of
\* one bounding box, no more than one of them survives, and the number of
\* detections kept equals the number kept from the same detections without
\* the duplicates, for every box the detector can emit.
C15_DuplicatesCollapse ==
    (npc = "done" /\ HasDuplicates(ndets)) =>
        /\ \A i \in 1..Len(ndets) :
               Cardinality({k \in 1..Len(nkeep) : nkeep[k].bbox = ndets[i].bbox}) <= 1
        /\ Len(nkeep) = Len(apply_cluster_nms(WithoutDuplicates(ndets), NmsBaseIou))

(***************************************************************************)
(* Claims about the tracker.                                               *)
(***************************************************************************)

\* C6: every track returned by SimpleTracker.update is active and has
\* accumulated at least min_hits detections.
C6_OnlyConfirmedReturned ==
    \A i \in 1..Len(tret) :
        /\ tret[i] \in TrackIds(trk)
        /\ trk.tracks[tret[i]].is_active
        /\ trk.tracks[tret[i]].hits >= min_hits

\* an update that returns a confirmed track while the tracker holds a track
\* that was confirmed and is now lost
C6_Witness ==
    /\ Len(tret) > 0
    /\ \E i \in TrackIds(trk) : ~trk.tracks[i].is_active /\ trk.tracks[i].hits >= min_hits

\* the processed frames (update calls) since the track was last matched: its
\* caller's frame number less the frame number of its last detection, in
\* steps of frame_skip
UnmatchedFrames(i) ==
    (tcaller.frame_number - trk.tracks[i].last_seen_frame) \div tcaller.frame_skip

\* C18: a track that went unmatched for more than max_age processed frames
\* is Lost: it is inactive, so it takes no part in association, and update
\* does not return it; for frame_skip 1 and for frame_skip 5.
C18_UnmatchedTrackLost ==
    tcaller.frame_skip \in FrameSkips =>
        \A i \in TrackIds(trk) :
            UnmatchedFrames(i) > trk.max_age =>
                /\ ~trk.tracks[i].is_active
                /\ \A k \in 1..Len(tret) : tret[k] # i

(***************************************************************************)
(* Claims about the re-identification engine.                              *)
(***************************************************************************)

\* the largest cosine similarity of an embedding against the stable
\* embeddings of a cache, 0 for the empty cache
BestSimilarity(cache, embedding) ==
    IF cache = <<>> THEN 0
    ELSE LET sims == {cosine_similarity(embedding, get_stable_embedding(cache[k])) :
                         k \in 1..Len(cache)}
         IN  CHOOSE m \in sims : \A x \in sims : x <= m

\* C7: identify decides from the best cosine similarity s of the track's
\* aggregated embedding against the identity cache: s >= 0.85 gives
\* STRONG_MATCH and 0.70 <= s < 0.85 gives WEAK_MATCH, both with the id of
\* an identity in the cache whose similarity is s; every s < 0.70, the
\* empty cache included, gives NEW with id None.
C7_DecisionBands ==
    rcall.called =>
        LET cache == rcall.engine.identity_cache
            agg == MeanNormalized(Append(PendingOf(rcall.engine, rcall.track_id),
                                         rcall.embedding))
            s == BestSimilarity(cache, agg)
            hit == /\ rret.identity_id \in CacheKeys(cache)
                   /\ cosine_similarity(agg,
                          get_stable_embedding(cache[CachePos(cache, rret.identity_id)])) = s
        IN  /\ rret.similarity = s
            /\ s >= 850 => rret.decision = "STRONG_MATCH" /\ hit
            /\ (s >= 700 /\ s < 850) => rret.decision = "WEAK_MATCH" /\ hit
            /\ s < 700 => rret.decision = "NEW" /\ rret.identity_id = None
            /\ cache = <<>> => rret.decision = "NEW" /\ rret.identity_id = None

\* an identify call whose best similarity lies in [0.60, 0.70) against a
\* cache that is not empty
C7_Witness ==
    /\ rcall.called
    /\ rcall.engine.identity_cache # <<>>
    /\ rret.similarity >= 600
    /\ rret.similarity < 700
    /\ rret.decision = "NEW"

(***************************************************************************)
(* Claims about the job.                                                   *)
(***************************************************************************)
StructuredCodes == {"CODEC_DECODE_FAILED", "UPLOAD_STREAM_INTERRUPTED",
                    "PROCESSOR_NODE_FAULT", "IDENTITY_ENGINE_FAULT", "SYSTEM_FAULT"}

\* C2: the persisted progress of a job never decreases, stays within
\* 0..100, and is 100 exactly when the persisted status is Completed.
C2_ProgressMonotone ==
    [][\A v \in DOMAIN job :
          /\ db'.videos[v].progress >= db.videos[v].progress
          /\ db'.videos[v].progress \in 0..100
          /\ db'.videos[v].progress = 100 <=>
                 db'.videos[v].processing_status = "Completed"]_vars

\* C3: a job whose stream ended normally with an unreliable verification
\* returns completed_with_warnings from the orchestrator and is persisted
\* as CompletedWithWarnings; success and Completed occur only with a
\* reliable verification.
C3_WarningsStatus ==
    \A v \in DOMAIN job :
        job[v].pc = "done" =>
            IF job[v].verification.is_reliable
            THEN /\ job[v].ret = "success"
                 /\ db.videos[v].processing_status = "Completed"
            ELSE /\ job[v].ret = "completed_with_warnings"
                 /\ db.videos[v].processing_status = "CompletedWithWarnings"

\* C4: a job that ended in an exception is persisted as Failed with an
\* error_message that carries a structured error code, and the
\* orchestrator, when the exception was raised inside it, has returned
\* status failed.
C4_StructuredFailure ==
    \A v \in DOMAIN job :
        job[v].pc = "failed" =>
            /\ db.videos[v].processing_status = "Failed"
            /\ db.videos[v].error_message.code \in StructuredCodes
            /\ job[v].ret \in {"failed", "none"}

\* C5: while the frame loop of a job runs, its persisted status is
\* Processing (written with progress 0 before the first frame is read).
C5_ProcessingInLoop ==
    \A v \in DOMAIN job :
        job[v].pc = "loop" => db.videos[v].processing_status = "Processing"

\* C8: jobs running together never create two Animal rows for one
\* embedding.
C8_NoDuplicateAnimal ==
    \A a, b \in 1..Len(db.biometric_registry) :
        db.biometric_registry[a].embedding_blob = db.biometric_registry[b].embedding_blob
            => a = b

\* a confirmed track of the job at the box of the animal
ConfirmedTrackOf(v, a) ==
    \E i \in TrackIds(job[v].tracker) :
        /\ job[v].tracker.tracks[i].bbox = BoxOf(a)
        /\ job[v].tracker.tracks[i].hits >= min_hits

\* C9: a finished job on an empty store in which the two distinct animals
\* each formed a confirmed track leaves exactly two Animal rows and two
\* Biometric Records.
C9_TwoAnimalsTwoRows ==
    \A v \in DOMAIN job :
        (job[v].pc = "done" /\ \A a \in Animals : ConfirmedTrackOf(v, a)) =>
            /\ Len(db.goats) = 2
            /\ Len(db.biometric_registry) = 2

\* the warnings of a finished job: 'warnings' of the processor's result and of
\* the metadata it saves, both verification_result.warnings
JobWarnings(j) == j.verification.warnings

\* C16: a job whose frames were detected by the fallback (the neural model
\* was not loaded) finishes with a warnings list that holds a fallback
\* warning.
C16_FallbackWarned ==
    \A v \in DOMAIN job :
        (job[v].pc = "done" /\ ~job[v].neural_enabled /\ job[v].frame_number > 0) =>
            "fallback" \in JobWarnings(job[v])

\* a vector of the fixed dimension that has unit length, to a thousandth, or
\* is the zero vector
UnitOrZero(v) ==
    /\ Len(v) = Dim
    /\ \/ v = [i \in 1..Dim |-> 0]
       \/ (999 * 999 <= Dot(v, v) /\ Dot(v, v) <= 1001 * 1001)

\* C17: every persisted Biometric Record holds a vector of the fixed
\* dimension whose L2 norm is within a thousandth of 1 or that is the zero
\* vector, after a registration and after every EMA update of a match.
C17_PersistedUnitOrZero ==
    \A k \in 1..Len(db.biometric_registry) :
        UnitOrZero(db.biometric_registry[k].embedding_blob)

\* a job has matched a track to a registered animal and drifted its embedding
C17_Witness ==
    /\ db.biometric_registry # <<>>
    /\ \E v \in DOMAIN job :
           \E k \in 1..Len(job[v].reid_engine.identity_cache) :
               job[v].reid_engine.identity_cache[k].appearance_count > 0

\* C19: after every STRONG_MATCH or WEAK_MATCH the EMA-updated embedding is
\* in the identity cache and in the persisted Biometric Record: the
\* persisted vector of each animal a job has matched equals the embedding
\* the job's cache holds for it.
C19_MatchWrittenThrough ==
    \A v \in DOMAIN job :
        \A k \in 1..Len(job[v].reid_engine.identity_cache) :
            LET identity == job[v].reid_engine.identity_cache[k] IN
            identity.appearance_count > 0 =>
                \E r \in 1..Len(db.biometric_registry) :
                    /\ db.biometric_registry[r].goat_id = identity.identity_id
                    /\ db.biometric_registry[r].embedding_blob = identity.embedding

\* the SIGHTING events of the animal in the video, and the audit entries of
\* its matches
SightingsOf(goat_id, video_id) ==
    {e \in 1..Len(db.events) :
        /\ db.events[e].goat_id = goat_id
        /\ db.events[e].video_id = video_id
        /\ db.events[e].event_type = "SIGHTING"}

MatchAuditsOf(goat_id) ==
    {a \in 1..Len(db.audit_log) :
        /\ db.audit_log[a].entity_type = "goat"
        /\ db.audit_log[a].entity_id = goat_id
        /\ db.audit_log[a].action = "MATCHED"}

\* C20: for every track a job has resolved to an existing animal (a
\* STRONG_MATCH or WEAK_MATCH, each of which counts one appearance of the
\* cached identity) the animal's last_seen is set, and there is one SIGHTING
\* event for the animal and the video and one audit entry per such match.
C20_MatchRecorded ==
    \A v \in DOMAIN job :
        \A k \in 1..Len(job[v].reid_engine.identity_cache) :
            LET identity == job[v].reid_engine.identity_cache[k] IN
            identity.appearance_count > 0 =>
                /\ db.last_seen[identity.identity_id] # <<>>
                /\ Cardinality(SightingsOf(identity.identity_id, v)) >= 1
                /\ Cardinality(MatchAuditsOf(identity.identity_id)) >= 1


(***************************************************************************)
(* Claims about the evidence buffer.                                       *)
(***************************************************************************)

\* C21: at every point of the frame loop frames_for_evidence holds at most
\* 5 frame copies, whatever the per-frame detection counts are.
C21_EvidenceBounded ==
    "frames_for_evidence" \in DOMAIN evid =>
        Cardinality(evid.frames_for_evidence) <= 5


(***************************************************************************)
(* Claims about the association of detections to tracks.                   *)
(***************************************************************************)

\* the tracker as _associate_detections of the last update call found it
CallTracker == [tcall.before EXCEPT !.frame_count = @ + 1]

\* iou > iou_threshold (0.3), or iou >= iou_threshold
AboveIouThreshold(f, strictly) == IF strictly THEN 10 * f.n > 3 * f.d ELSE 10 * f.n >= 3 * f.d

\* the pair the greedy rule names among the tracks R and the detections C
\* left: the highest IoU of the track's last-known box with the detection,
\* on equal IoU the lower track id, then the earlier detection
BestPair(t, dets, R, C) ==
    CHOOSE p \in R \X C :
        \A q \in R \X C :
            LET fp == Iou(t.tracks[p[1]].bbox, dets[p[2]])
                fq == Iou(t.tracks[q[1]].bbox, dets[q[2]])
            IN  \/ FracLess(fq, fp)
                \/ /\ ~FracLess(fp, fq)
                   /\ (p[1] < q[1] \/ (p[1] = q[1] /\ p[2] <= q[2]))

\* the greedy matching
RECURSIVE GreedyRule(_, _, _, _, _)
GreedyRule(t, dets, R, C, strictly) ==
    IF R = {} \/ C = {} THEN {}
    ELSE LET p == BestPair(t, dets, R, C) IN
         IF ~AboveIouThreshold(Iou(t.tracks[p[1]].bbox, dets[p[2]]), strictly) THEN {}
         ELSE {p} \cup GreedyRule(t, dets, R \ {p[1]}, C \ {p[2]}, strictly)

ActiveSet(t) == {i \in TrackIds(t) : t.tracks[i].is_active}

\* what an update call leaves in the tracker when its matching is the set
\* of <<track id, detection index>> pairs m: a matched track took its
\* detection, no other track changed but for its activity, and every
\* detection outside m opened a track
MatchedAs(m) ==
    LET t == tcall.before
        dets == tcall.detections
    IN  /\ \A p \in m :
               /\ trk.tracks[p[1]].hits = t.tracks[p[1]].hits + 1
               /\ trk.tracks[p[1]].bbox = dets[p[2]]
        /\ \A i \in TrackIds(t) :
               (\A p \in m : p[1] # i) =>
                   /\ trk.tracks[i].hits = t.tracks[i].hits
                   /\ trk.tracks[i].bbox = t.tracks[i].bbox
        /\ Len(trk.tracks) = Len(t.tracks) + Len(dets) - Cardinality(m)

\* C22: _associate_detections matches greedily: the pair of an active track
\* and a detection with the highest IoU first, accepted only if that IoU is
\* above iou_threshold, then without that track and that detection; on
\* equal IoU the lower track id and then the earlier detection.
C22_GreedyAboveThreshold ==
    (tcall.called /\ tcall.detections # <<>>) =>
        MatchedAs(GreedyRule(CallTracker, tcall.detections, ActiveSet(CallTracker),
                             1..Len(tcall.detections), TRUE))

\* the same matching with acceptance at iou >= iou_threshold
GreedyAtLeastThreshold ==
    (tcall.called /\ tcall.detections # <<>>) =>
        MatchedAs(GreedyRule(CallTracker, tcall.detections, ActiveSet(CallTracker),
                             1..Len(tcall.detections), FALSE))


(***************************************************************************)
(* Claims about the suppression threshold of the NMS.                      *)
(***************************************************************************)

\* the detections of ndets in descending confidence order, as the NMS
\* considers them
Considered == SortedByConfidence(ndets)

\* iou > T_nms
ExceedsNms(box1, box2) == FracLess(NmsBaseIou, compute_iou(box1, box2))

\* the k-th considered detection is in the output: it is kept when no
\* detection considered before it that is in the output has an IoU with it
\* above T_nms
RECURSIVE KeptByRule(_)
KeptByRule(k) ==
    \A h \in 1..(k - 1) :
        KeptByRule(h) => ~ExceedsNms(Considered[h].bbox, Considered[k].bbox)

RuleOutput == SelectSeq([k \in 1..Len(ndets) |-> k], KeptByRule)

\* C23: _apply_cluster_nms considers the detections in descending
\* confidence order and suppresses one if and only if its IoU with an
\* already kept detection exceeds T_nms = 0.75: the output is a subset of
\* the input, no two of its detections have an IoU above T_nms, and a
\* detection whose IoU with every kept detection is at most T_nms is kept.
C23_SuppressedIffExceeds ==
    npc = "done" =>
        /\ \A k \in 1..Len(nkeep) : \E i \in 1..Len(ndets) : ndets[i] = nkeep[k]
        /\ \A k, h \in 1..Len(nkeep) :
               k # h => ~ExceedsNms(nkeep[k].bbox, nkeep[h].bbox)
        /\ nkeep = [k \in 1..Len(RuleOutput) |-> Considered[RuleOutput[k]]]


(***************************************************************************)
(* Claims about the sudden jumps of the verifier.                          *)
(***************************************************************************)

\* the count the input maps to a frame number
CountAt(in, f) == (CHOOSE i \in 1..Len(in) : in[i].frame = f)

\* the pairs of sampled frames that are consecutive in ascending
\* frame-number order
ConsecutiveFrames(in) ==
    {p \in FrameKeys(in) \X FrameKeys(in) :
        p[1] < p[2] /\ ~\E f \in FrameKeys(in) : p[1] < f /\ f < p[2]}

\* the consecutive pairs with a previous count > 0 and a relative change
\* |c_t - c_(t-1)| / c_(t-1) of at least 50%, or of more than 50%
JumpPairs(in, atLeast) ==
    {p \in ConsecutiveFrames(in) :
        LET prev == in[CountAt(in, p[1])].count
            curr == in[CountAt(in, p[2])].count
        IN  /\ prev > 0
            /\ IF atLeast THEN 2 * Abs(curr - prev) >= prev
                          ELSE 2 * Abs(curr - prev) > prev}

CallQuery ==
    MeanNormalized(Append(PendingOf(rcall.engine, rcall.track_id), rcall.embedding))

\* the cache positions whose similarity to the query is within 0.001 of the
\* maximum
NearMaximum(cache, embedding) ==
    {k \in 1..Len(cache) :
        cosine_similarity(embedding, get_stable_embedding(cache[k]))
            >= BestSimilarity(cache, embedding) - 1}

\* C25: when several cached identities score within 0.001 of the maximum
\* similarity, the best match is the one among them that was updated most
\* recently, whatever the order of the cache.
C25_TieToMostRecent ==
    (rcall.called /\ rret.decision # "NEW") =>
        LET cache == rcall.engine.identity_cache
            best == cache[CachePos(cache, rret.identity_id)]
        IN  \A k \in NearMaximum(cache, CallQuery) :
                best.last_seen >= cache[k].last_seen


(***************************************************************************)
(* Claims about a registration that fails.                                 *)
(***************************************************************************)

\* the ids of the persisted animals
PersistedIds == 1..Len(db.goats)

\* C26: when _register_new_goat returns None the identity cache is left
\* unchanged: at no point does the cache of a job's Re-ID engine hold an
\* identity whose id is not the id of a persisted animal.
C26_CacheHoldsPersistedOnly ==
    \A v \in DOMAIN job :
        CacheKeys(job[v].reid_engine.identity_cache) \subseteq PersistedIds


(***************************************************************************)
(* Claims about the engine singleton.                                      *)
(***************************************************************************)

\* C27: the MasterEngine singleton is initialized at most once per process:
\* of the threads that call get_master_engine together only one runs the
\* initialization body (the subsystems are constructed once and one
\* ENGINE_INITIALIZED entry is written), and no thread receives an instance
\* whose subsystems are not constructed.
C27_InitializedOnce ==
    "constructions" \in DOMAIN singleton =>
        /\ singleton.constructions <= 1
        /\ singleton.audit <= 1
        /\ \A t \in DOMAIN thr :
               thr[t].holds = "instance" => singleton.constructions >= 1


(***************************************************************************)
(* Claims about the tracks of one update call.                             *)
(***************************************************************************)

\* len(detections) summed over the tracks of a tracker
TotalHits(t) == SumSeq([i \in 1..Len(t.tracks) |-> t.tracks[i].hits])

\* C28: within one update call the association is one-to-one and total on
\* the detections: a track receives at most one detection, every detection
\* is appended to exactly one track, a matched one or a new one whose id is
\* the next_track_id of that moment, and no track id is assigned twice.
C28_OneToOneAndFresh ==
    (tcall.called /\ tcall.detections # <<>>) =>
        LET before == tcall.before
            dets == tcall.detections
            old == 1..Len(before.tracks)
            created == (Len(before.tracks) + 1)..Len(trk.tracks)
        IN  /\ Len(trk.tracks) >= Len(before.tracks)
            /\ \A i \in old :
                   /\ trk.tracks[i].track_id = before.tracks[i].track_id
                   /\ trk.tracks[i].hits \in {before.tracks[i].hits,
                                              before.tracks[i].hits + 1}
            /\ TotalHits(trk) = TotalHits(before) + Len(dets)
            /\ \A j \in 1..Len(dets) :
                   Cardinality({i \in 1..Len(trk.tracks) :
                       /\ trk.tracks[i].bbox = dets[j]
                       /\ trk.tracks[i].last_seen_frame = tcaller.frame_number
                       /\ (i \in old => trk.tracks[i].hits = before.tracks[i].hits + 1)})
                     = 1
            /\ \A i \in created :
                   /\ trk.tracks[i].hits = 1
                   /\ trk.tracks[i].track_id = before.next_track_id + (i - Len(before.tracks) - 1)
                   /\ \A k \in old : before.tracks[k].track_id # trk.tracks[i].track_id
            /\ trk.next_track_id = before.next_track_id + Cardinality(created)
            /\ \A i, k \in 1..Len(trk.tracks) :
                   i # k => trk.tracks[i].track_id # trk.tracks[k].track_id
            /\ \A i \in 1..Len(trk.tracks) : trk.tracks[i].track_id < trk.next_track_id

\* an update with two detections of which one continued a track and the
\* other opened one
C28_Witness ==
    /\ tcall.called
    /\ Len(tcall.detections) = 2
    /\ Len(tcall.before.tracks) >= 1
    /\ Len(trk.tracks) = Len(tcall.before.tracks) + 1
    /\ \E i \in 1..Len(tcall.before.tracks) :
           trk.tracks[i].hits = tcall.before.tracks[i].hits + 1


(***************************************************************************)
(* Claims about the error message of a job.                                *)
(***************************************************************************)

\* C29: a job whose persisted status is Completed has no error message:
\* error_message is written only when the job fails and holds no value
\* when the job is marked Completed.
C29_CompletedWithoutMessage ==
    \A v \in DOMAIN db.videos :
        db.videos[v].processing_status = "Completed" =>
            db.videos[v].error_message = NoMessage


(***************************************************************************)
(* Claims about the order of the verifier's input.                         *)
(***************************************************************************)

\* C30: the result of verify_counts depends on the frame -> count and
\* frame -> uncertainty mappings only: the maps with the same entries
\* inserted in ascending frame order give the same temporal_stability,
\* confidence_score, warnings and count range.
C30_InsertionOrderIrrelevant ==
    vpc = "verified" =>
        LET other == verify_counts(ByFrame(vin), vmeta)
        IN  /\ vres.temporal_stability = other.temporal_stability
            /\ vres.confidence_score = other.confidence_score
            /\ vres.warnings = other.warnings
            /\ vres.min_count = other.min_count
            /\ vres.likely_count = other.likely_count
            /\ vres.max_count = other.max_count

=============================================================================
